---- MODULE Spec2Model ----
(***************************************************************************)
(* The due-drop worker of dropwise-api (ProcessDropsLogic) over the drops   *)
(* table, together with the API operations that create, update and delete  *)
(* drops.  Several worker runs ("ticks") may overlap; every database call  *)
(* is one atomic step and the worker can be interleaved between its calls. *)
(***************************************************************************)
EXTENDS Integers, Sequences, FiniteSets, TLC

\* ------------------------------------------------------------------ bounds
MaxDrops == 2        \* drop ids that can ever be created
NumTicks == 2        \* worker runs, any of which may overlap
MaxTime == 1         \* last value the clock can reach
MaxUpdates == 1      \* update/delete requests served by the API
MaxApiDrops == 1     \* drops in the table when only the API is at work
NumCallers == 3      \* goroutines that call GetDBQueries
NumRegs == 2         \* register requests under way at once

DropIds == 1..MaxDrops
TickIds == 1..NumTicks
Callers == 1..NumCallers
RegIds == 1..NumRegs
Users == {"A", "B"}
PriorityValues == {0, 1}

\* --------------------------------------------------------------- sql types
\* database/sql nullable values: {Valid, value}; the value is 0 when not Valid.
NullInt32(v) == [Valid |-> TRUE, Int32 |-> v]
NoInt32 == [Valid |-> FALSE, Int32 |-> 0]
NullTime(t) == [Valid |-> TRUE, Time |-> t]
NoTime == [Valid |-> FALSE, Time |-> 0]
NoUUID == "NULL"

VARIABLES
    drops,      \* the drops table: id -> row, for every id ever inserted
    now,        \* the clock, as last read by anybody
    updates,    \* update/delete requests served so far
    ticks,      \* the worker runs: id -> locals of ProcessDropsLogic
    hist,       \* history: per drop, the 'new' -> 'sent' transitions made
    due0,       \* history: the rows that were 'new' when the last run listed
    tags,       \* the drops_item_tags table: drop id -> names of its tags
    resp,       \* the last request the API router served, with its answer
    dbOnce,         \* package config: the sync.Once
    globalQueries,  \* package config: the *db.Queries: 0 for nil, k for the
                    \* object the k-th initialisation made
    initConfigErr,  \* package config: the error of the initialisation
    inits,          \* history: how many times initializeGlobalDB was entered
    calls,          \* the goroutines in GetDBQueries: id -> position, result
    users,          \* the users table: a set of rows
    regs            \* the register requests: id -> position, email, answer

storeVars == <<drops, now, updates, ticks, hist, due0, tags, resp>>
configVars == <<dbOnce, globalQueries, initConfigErr, inits, calls>>
authVars == <<users, regs>>
vars == <<storeVars, configVars, authVars>>

\* net/http status codes the handlers answer with.
StatusOK == 200
StatusCreated == 201
StatusNoContent == 204
StatusBadRequest == 400
StatusUnauthorized == 401
StatusForbidden == 403
StatusNotFound == 404
StatusMethodNotAllowed == 405
StatusConflict == 409
StatusInternalServerError == 500

\* What resp records of a request: the handler it was routed to, its method,
\* the parts of its Authorization header, the drop id in its path (0 when the
\* path has none), and the answer: status code (0 while the handler is still
\* at work), processed_count and error message of the body.
NoResponse ==
    [handler |-> "", method |-> "", auth |-> <<>>, id |-> 0,
     code |-> 0, processed_count |-> 0, error |-> ""]

\* ------------------------------------------------------------------- store
\* CREATE TABLE drops: the column defaults of a row the INSERT names no value for.
DefaultStatus == "new"
DefaultSendCount == 0
DefaultLastSentDate == NoTime
Statuses == {"new", "sent", "archived", "snoozed"}

\* A row that DELETE removed; its id is never handed out again.
Deleted == [deleted |-> TRUE, user_uuid |-> NoUUID, priority |-> NoInt32,
            status |-> "archived", added_date |-> 0,
            last_sent_date |-> NoTime, send_count |-> 0]

Rows == {d \in DOMAIN drops : ~drops[d].deleted}

\* NOW() / time.Now(): the clock never goes back; it may have advanced since
\* the last read.
ClockReads == {t \in {now, now + 1} : t <= MaxTime}

\* CreateDrop :one -- INSERT (user_uuid, topic, url, user_notes, priority)
\* VALUES ($1..$5): every named column takes the parameter, NULL included;
\* the other columns take their defaults.
CreateDropRow(userUuid, priority, at) ==
    [deleted |-> FALSE, user_uuid |-> userUuid, priority |-> priority,
     status |-> DefaultStatus, added_date |-> at,
     last_sent_date |-> DefaultLastSentDate, send_count |-> DefaultSendCount]

\* Faulty variant: the parameter is stored even when it is NULL.
Coalesce_Overwrite(narg, old) == narg

\* COALESCE(sqlc.narg(x), x)
Coalesce(narg, old) == IF narg.Valid THEN narg ELSE old

\* Faulty variant: setting the status back to 'new' also resets send_count.
UpdateDropRow_ResetCount(row, priority, status) ==
    [row EXCEPT !.priority = Coalesce(priority, row.priority),
                !.status = IF status.Valid THEN status.String ELSE row.status,
                !.send_count = IF status.Valid /\ status.String = "new"
                               THEN 0 ELSE row.send_count]

\* UpdateDrop :one -- the row after the UPDATE (topic, url and user_notes are
\* not part of the model's row).
UpdateDropRow(row, priority, status) ==
    [row EXCEPT !.priority = Coalesce(priority, row.priority),
                !.status = IF status.Valid THEN status.String ELSE row.status]

\* The sequences that list every element of S once: a query without ORDER BY
\* returns its rows in any order.
Orderings(S) ==
    {s \in [1..Cardinality(S) -> S] : \A i, j \in DOMAIN s : i # j => s[i] # s[j]}

\* Faulty variant: the condition on user_uuid is missing.
RowsWithDueDrops_WithNull ==
    {d \in Rows : drops[d].status = "new"}

\* WHERE status = 'new' AND user_uuid IS NOT NULL
RowsWithDueDrops ==
    {d \in Rows : drops[d].status = "new" /\ drops[d].user_uuid # NoUUID}

\* Faulty variants of the listing: one fixed user only (the "default-user" of
\* the first worker); one entry per due row (no DISTINCT).
ListUserUUIDsWithDueDrops_DefaultUser ==
    Orderings({drops[d].user_uuid : d \in RowsWithDueDrops} \cap {"A"})

ListUserUUIDsWithDueDrops_NoDistinct ==
    {[i \in DOMAIN s |-> drops[s[i]].user_uuid] : s \in Orderings(RowsWithDueDrops)}

\* Faulty variant: no status condition (every user that owns a row).
ListUserUUIDsWithDueDrops_AnyStatus ==
    Orderings({drops[d].user_uuid : d \in {e \in Rows : drops[e].user_uuid # NoUUID}})

\* ListUserUUIDsWithDueDrops :many -- SELECT DISTINCT user_uuid: the results
\* the query can return, each user once.
ListUserUUIDsWithDueDrops ==
    Orderings({drops[d].user_uuid : d \in RowsWithDueDrops})

\* Faulty variant: priority ASC.
PriorityBefore_Asc(a, b) ==
    \/ a.priority.Valid /\ ~b.priority.Valid
    \/ a.priority.Valid /\ b.priority.Valid /\ a.priority.Int32 < b.priority.Int32

\* ORDER BY priority DESC, added_date ASC: row a sorts strictly before row b.
\* PostgreSQL puts NULLs first in a DESC ordering.
PriorityBefore(a, b) ==
    \/ ~a.priority.Valid /\ b.priority.Valid
    \/ a.priority.Valid /\ b.priority.Valid /\ a.priority.Int32 > b.priority.Int32

SamePriority(a, b) == ~PriorityBefore(a, b) /\ ~PriorityBefore(b, a)

\* Faulty variant: added_date DESC.
SortsBefore_NewestFirst(a, b) ==
    \/ PriorityBefore(a, b)
    \/ SamePriority(a, b) /\ a.added_date > b.added_date

SortsBefore(a, b) ==
    \/ PriorityBefore(a, b)
    \/ SamePriority(a, b) /\ a.added_date < b.added_date

\* WHERE user_uuid = $1 AND status = 'new'
DueDrops(userUuid) ==
    {d \in Rows : drops[d].user_uuid = userUuid /\ drops[d].status = "new"}

\* GetDueDropsByUserUUID :many with LIMIT 1: the ids the single returned row
\* can have (rows that sort equal come back in either order); empty when the
\* user has no due drop.
GetDueDropsByUserUUID(userUuid) ==
    {d \in DueDrops(userUuid) :
        \A e \in DueDrops(userUuid) : ~SortsBefore(drops[e], drops[d])}

\* Faulty variant: last_sent_date is left as it was.
MarkDropAsSent_NoStamp(row, lastSentDate) ==
    [row EXCEPT !.status = "sent", !.send_count = row.send_count + 1]

\* Faulty variant: the update also clears the priority.
MarkDropAsSent_ClearPriority(row, lastSentDate) ==
    [row EXCEPT !.status = "sent",
                !.last_sent_date = lastSentDate,
                !.send_count = row.send_count + 1,
                !.priority = NoInt32]

\* MarkDropAsSent :one -- UPDATE ... WHERE id = $1: the row after the update.
MarkDropAsSent(row, lastSentDate) ==
    [row EXCEPT !.status = "sent",
                !.last_sent_date = lastSentDate,
                !.send_count = row.send_count + 1]

\* -------------------------------------------------------------------- init
\* Locals of one run of ProcessDropsLogic; logged holds the per-user errors
\* the run wrote to the log (log.Printf "Error fetching due drops for user",
\* "Error marking drop ... as sent for user").
NewTick ==
    [pc |-> "idle", userUUIDs |-> <<>>, i |-> 0, dueDrop |-> 0,
     lastSentDate |-> 0, totalProcessedCount |-> 0, err |-> FALSE,
     overallSuccess |-> TRUE, logged |-> {}, cancelled |-> FALSE,
     stoppedAt |-> ""]

\* One line of the log about a failed call for a user.
LogError(step, userUUID) == [step |-> step, user |-> userUUID]

NoHist == [transitions |-> 0, transitionAt |-> NoTime]

\* A goroutine outside GetDBQueries, and a register request not yet received.
NoCall == [pc |-> "idle", queries |-> 0, err |-> "nil"]
NoReg == [pc |-> "idle", email |-> "", code |-> 0]

\* Package config before the first call: the zero values of its variables.
InitConfig ==
    /\ dbOnce = "new"
    /\ globalQueries = 0
    /\ initConfigErr = "nil"
    /\ inits = 0
    /\ calls = [c \in Callers |-> NoCall]

\* The users table after the migration, and no register request under way.
InitAuth ==
    /\ users = {}
    /\ regs = [r \in RegIds |-> NoReg]

Init ==
    /\ drops = [d \in {} |-> Deleted]
    /\ now = 0
    /\ updates = 0
    /\ ticks = [t \in TickIds |-> NewTick]
    /\ hist = [d \in DropIds |-> NoHist]
    /\ due0 = [d \in {} |-> Deleted]
    /\ tags = [d \in DropIds |-> {}]
    /\ resp = NoResponse
    /\ InitConfig
    /\ InitAuth

\* --------------------------------------------------------------------- API
\* POST /api/v1/drops for an authenticated user; priority is the request's
\* optional field (NoInt32 when the body has none).
CreateDropHandler(userUUID, priority) ==
    \E id \in DropIds \ DOMAIN drops, at \in ClockReads :
        /\ drops' = [d \in DOMAIN drops \cup {id} |->
                        IF d = id
                        THEN CreateDropRow(userUUID, priority, at)
                        ELSE drops[d]]
        /\ now' = at
        /\ UNCHANGED <<ticks, hist>>

\* Faulty variant: one more status value is let through.
validStatuses_WithBogus == {"new", "sent", "archived", "snoozed", "bogus"}

\* The status values UpdateDropHandler lets through.
validStatuses == {"new", "sent", "archived", "snoozed"}

\* Faulty variant: any authenticated user passes for the owner.
GetDropCode_AnyUser(userUUID, id) ==
    IF id \notin Rows THEN StatusNotFound ELSE StatusOK

\* GetDrop :one and the check that follows it in the get, update and delete
\* handlers: sql.ErrNoRows -> 404; a row of nobody or of another user -> 403.
GetDropCode(userUUID, id) ==
    IF id \notin Rows THEN StatusNotFound
    ELSE IF drops[id].user_uuid = NoUUID \/ drops[id].user_uuid # userUUID
         THEN StatusForbidden
         ELSE StatusOK

\* The answer of UpdateDropHandler to a request that parses: 404 for no row,
\* 403 for another user's row, 400 for a status outside validStatuses,
\* otherwise 200.
UpdateDropCode(userUUID, id, status) ==
    IF GetDropCode(userUUID, id) # StatusOK THEN GetDropCode(userUUID, id)
    ELSE IF status.Valid /\ status.String \notin validStatuses
         THEN StatusBadRequest
         ELSE StatusOK

\* The answer of DeleteDropHandler: 404, 403, otherwise 204.
DeleteDropCode(userUUID, id) ==
    IF GetDropCode(userUUID, id) # StatusOK THEN GetDropCode(userUUID, id)
    ELSE StatusNoContent

\* PUT /api/v1/drops/{id} on the drops table: the UPDATE when the answer is
\* 200, nothing otherwise.
UpdateDropHandler(userUUID, id, priority, status) ==
    /\ IF UpdateDropCode(userUUID, id, status) = StatusOK
       THEN drops' = [drops EXCEPT ![id] = UpdateDropRow(@, priority, status)]
       ELSE UNCHANGED drops
    /\ UNCHANGED <<now, ticks, hist>>

\* DELETE /api/v1/drops/{id} on the drops table: the DELETE when the answer
\* is 204, nothing otherwise.
DeleteDropHandler(userUUID, id) ==
    /\ IF DeleteDropCode(userUUID, id) = StatusNoContent
       THEN drops' = [drops EXCEPT ![id] = Deleted]
       ELSE UNCHANGED drops
    /\ UNCHANGED <<now, ticks, hist>>

\* ------------------------------------------------------------------ worker
\* `continue` / the end of the for loop over userUUIDs: the next user, or the
\* return after the last one.
NextUser(tk) ==
    IF tk.i < Len(tk.userUUIDs)
    THEN [tk EXCEPT !.pc = "fetch", !.i = tk.i + 1, !.dueDrop = 0, !.lastSentDate = 0]
    ELSE [tk EXCEPT !.pc = "done", !.dueDrop = 0, !.lastSentDate = 0,
                    !.userUUIDs = <<>>]

\* Step 1: ListUserUUIDsWithDueDrops returned; no user: return 0, nil.
ListUsers(t) ==
    /\ ticks[t].pc = "idle"
    /\ \E s \in ListUserUUIDsWithDueDrops :
          ticks' = [ticks EXCEPT ![t] =
                      [@ EXCEPT !.pc = IF Len(s) = 0 THEN "done" ELSE "fetch",
                                !.userUUIDs = s,
                                !.i = IF Len(s) = 0 THEN 0 ELSE 1]]
    /\ UNCHANGED <<drops, now, updates, hist>>

\* Faulty variant: the error is recorded but the run goes on with a listing.
ListUsersFail_Continue(t) ==
    /\ ticks[t].pc = "idle"
    /\ \E s \in ListUserUUIDsWithDueDrops :
          ticks' = [ticks EXCEPT ![t] =
                      [@ EXCEPT !.pc = IF Len(s) = 0 THEN "done" ELSE "fetch",
                                !.userUUIDs = s,
                                !.i = IF Len(s) = 0 THEN 0 ELSE 1,
                                !.err = TRUE]]
    /\ UNCHANGED <<drops, now, updates, hist>>

\* Step 1 failed: return 0, err.
ListUsersFail(t) ==
    /\ ticks[t].pc = "idle"
    /\ ticks' = [ticks EXCEPT ![t] =
                    [@ EXCEPT !.pc = "done", !.err = TRUE]]
    /\ UNCHANGED <<drops, now, updates, hist>>

\* Faulty variant: an empty result is treated as a failed fetch.
GetDueDrop_EmptyIsError(t) ==
    LET tk == ticks[t]
        currentUserUUID == tk.userUUIDs[tk.i]
        dueDrops == IF currentUserUUID = NoUUID THEN {}
                    ELSE GetDueDropsByUserUUID(currentUserUUID)
    IN  /\ tk.pc = "fetch"
        /\ IF dueDrops = {}
           THEN ticks' = [ticks EXCEPT ![t] =
                            NextUser([tk EXCEPT
                                !.overallSuccess = FALSE,
                                !.logged = @ \cup {LogError("fetch", currentUserUUID)}])]
           ELSE \E d \in dueDrops :
                    ticks' = [ticks EXCEPT ![t] =
                                [tk EXCEPT !.pc = "send", !.dueDrop = d]]
        /\ UNCHANGED <<drops, now, updates, hist>>

\* Step 2a: GetDueDropsByUserUUID with Limit 1 returned; an invalid user uuid
\* and an empty result both continue with the next user.
GetDueDrop(t) ==
    LET tk == ticks[t]
        currentUserUUID == tk.userUUIDs[tk.i]
        dueDrops == IF currentUserUUID = NoUUID THEN {}
                    ELSE GetDueDropsByUserUUID(currentUserUUID)
    IN  /\ tk.pc = "fetch"
        /\ IF dueDrops = {}
           THEN ticks' = [ticks EXCEPT ![t] = NextUser(tk)]
           ELSE \E d \in dueDrops :
                    ticks' = [ticks EXCEPT ![t] =
                                [tk EXCEPT !.pc = "send", !.dueDrop = d]]
        /\ UNCHANGED <<drops, now, updates, hist>>

\* Faulty variant: a failed fetch is passed over without a log line.
GetDueDropFail_Silent(t) ==
    /\ ticks[t].pc = "fetch"
    /\ ticks' = [ticks EXCEPT ![t] =
                    NextUser([@ EXCEPT !.overallSuccess = FALSE])]
    /\ UNCHANGED <<drops, now, updates, hist>>

\* Faulty variant: a failed fetch ends the run with an error.
GetDueDropFail_Abort(t) ==
    /\ ticks[t].pc = "fetch"
    /\ ticks' = [ticks EXCEPT ![t] =
                    [@ EXCEPT
                        !.pc = "done", !.err = TRUE, !.userUUIDs = <<>>,
                        !.overallSuccess = FALSE,
                        !.logged = @ \cup {LogError("fetch", ticks[t].userUUIDs[ticks[t].i])}]]
    /\ UNCHANGED <<drops, now, updates, hist>>

\* Step 2a failed: overallSuccess = false; continue.
GetDueDropFail(t) ==
    /\ ticks[t].pc = "fetch"
    /\ ticks' = [ticks EXCEPT ![t] =
                    NextUser([@ EXCEPT
                        !.overallSuccess = FALSE,
                        !.logged = @ \cup {LogError("fetch", ticks[t].userUUIDs[ticks[t].i])}])]
    /\ UNCHANGED <<drops, now, updates, hist>>

\* Step 2b and the head of 2c: the simulated send (a sleep that always
\* succeeds), then markParams with LastSentDate = time.Now().
SendDrop(t) ==
    LET tk == ticks[t] IN
    /\ tk.pc = "send"
    /\ \E at \in ClockReads :
          /\ now' = at
          /\ ticks' = [ticks EXCEPT ![t] =
                          [tk EXCEPT !.pc = "mark", !.lastSentDate = at]]
    /\ UNCHANGED <<drops, updates, hist>>

\* Faulty variant: the row is updated but the run does not count it.
MarkDrop_Uncounted(t) ==
    LET tk == ticks[t]
        d == tk.dueDrop
    IN  /\ tk.pc = "mark"
        /\ IF d \in Rows
           THEN /\ drops' = [drops EXCEPT ![d] =
                                MarkDropAsSent(@, NullTime(tk.lastSentDate))]
                /\ hist' = IF drops[d].status = "new"
                           THEN [hist EXCEPT
                                   ![d].transitions = @ + 1,
                                   ![d].transitionAt = NullTime(tk.lastSentDate)]
                           ELSE hist
                /\ ticks' = [ticks EXCEPT ![t] = NextUser(tk)]
           ELSE /\ ticks' = [ticks EXCEPT ![t] =
                                NextUser([tk EXCEPT
                                    !.overallSuccess = FALSE,
                                    !.logged = @ \cup {LogError("mark", tk.userUUIDs[tk.i])}])]
                /\ UNCHANGED <<drops, hist>>
        /\ UNCHANGED <<now, updates>>

\* Step 2c: MarkDropAsSent returned.  A row with that id: it is updated and
\* counted.  No row (deleted meanwhile): sql.ErrNoRows, overallSuccess =
\* false; continue.
MarkDrop(t) ==
    LET tk == ticks[t]
        d == tk.dueDrop
    IN  /\ tk.pc = "mark"
        /\ IF d \in Rows
           THEN /\ drops' = [drops EXCEPT ![d] =
                                MarkDropAsSent(@, NullTime(tk.lastSentDate))]
                /\ hist' = IF drops[d].status = "new"
                           THEN [hist EXCEPT
                                   ![d].transitions = @ + 1,
                                   ![d].transitionAt = NullTime(tk.lastSentDate)]
                           ELSE hist
                /\ ticks' = [ticks EXCEPT ![t] =
                                NextUser([tk EXCEPT !.totalProcessedCount = @ + 1])]
           ELSE /\ ticks' = [ticks EXCEPT ![t] =
                                NextUser([tk EXCEPT
                                    !.overallSuccess = FALSE,
                                    !.logged = @ \cup {LogError("mark", tk.userUUIDs[tk.i])}])]
                /\ UNCHANGED <<drops, hist>>
        /\ UNCHANGED <<now, updates>>

\* Faulty variant: the drop is counted although the update failed.
MarkDropFail_Counted(t) ==
    /\ ticks[t].pc = "mark"
    /\ ticks' = [ticks EXCEPT ![t] =
                    NextUser([@ EXCEPT
                        !.overallSuccess = FALSE,
                        !.totalProcessedCount = @ + 1,
                        !.logged = @ \cup {LogError("mark", ticks[t].userUUIDs[ticks[t].i])}])]
    /\ UNCHANGED <<drops, now, updates, hist>>

\* Faulty variant: after a failed update the drop is sent again in the same
\* run.
MarkDropFail_Retry(t) ==
    /\ ticks[t].pc = "mark"
    /\ ticks' = [ticks EXCEPT ![t] =
                    [@ EXCEPT
                        !.pc = "send", !.lastSentDate = 0,
                        !.overallSuccess = FALSE,
                        !.logged = @ \cup {LogError("mark", ticks[t].userUUIDs[ticks[t].i])}]]
    /\ UNCHANGED <<drops, now, updates, hist>>

\* Step 2c failed with a database error: nothing is written;
\* overallSuccess = false; continue.
MarkDropFail(t) ==
    /\ ticks[t].pc = "mark"
    /\ ticks' = [ticks EXCEPT ![t] =
                    NextUser([@ EXCEPT
                        !.overallSuccess = FALSE,
                        !.logged = @ \cup {LogError("mark", ticks[t].userUUIDs[ticks[t].i])}])]
    /\ UNCHANGED <<drops, now, updates, hist>>

\* The request context of run t is cancelled while the loop is under way (the
\* caller of the HTTP trigger went away).  ProcessDropsLogic never looks at
\* ctx itself: the loop goes on, time.Sleep is not interrupted, and every
\* later database call returns the context's error.
Cancel(t) ==
    /\ ticks[t].pc \in {"fetch", "send", "mark"}
    /\ ~ticks[t].cancelled
    /\ ticks' = [ticks EXCEPT ![t].cancelled = TRUE]
    /\ UNCHANGED <<drops, now, updates, hist>>

\* The process of run t dies in the loop; stoppedAt keeps the step it had
\* reached, the other locals what they held.
Crash(t) ==
    /\ ticks[t].pc \in {"fetch", "send", "mark"}
    /\ ticks' = [ticks EXCEPT ![t].pc = "crashed", ![t].stoppedAt = ticks[t].pc]
    /\ UNCHANGED <<drops, now, updates, hist>>

\* --------------------------------------------------------------------- API
NullablePriorities == {NoInt32} \cup {NullInt32(v) : v \in PriorityValues}
NullableStatuses ==
    {[Valid |-> FALSE, String |-> ""]}
        \cup {[Valid |-> TRUE, String |-> s] : s \in validStatuses \cup {"bogus"}}

\* The requests the API serves.
Create ==
    /\ UNCHANGED updates
    /\ \E u \in Users, p \in NullablePriorities : CreateDropHandler(u, p)

Update ==
    /\ updates < MaxUpdates
    /\ updates' = updates + 1
    /\ \E u \in Users, id \in DropIds, p \in NullablePriorities,
          s \in NullableStatuses : UpdateDropHandler(u, id, p, s)

Delete ==
    /\ updates < MaxUpdates
    /\ updates' = updates + 1
    /\ \E u \in Users, id \in DropIds : DeleteDropHandler(u, id)

\* -------------------------------------------------------------------- spec
\* Spec: the API and worker runs that overlap freely; no database call fails.
Next ==
    \/ Create /\ UNCHANGED <<due0, tags, resp, configVars, authVars>>
    \/ Update /\ UNCHANGED <<due0, tags, resp, configVars, authVars>>
    \/ Delete /\ UNCHANGED <<due0, tags, resp, configVars, authVars>>
    \/ \E t \in TickIds : ListUsers(t) /\ UNCHANGED <<due0, tags, resp, configVars, authVars>>
    \/ \E t \in TickIds : GetDueDrop(t) /\ UNCHANGED <<due0, tags, resp, configVars, authVars>>
    \/ \E t \in TickIds : SendDrop(t) /\ UNCHANGED <<due0, tags, resp, configVars, authVars>>
    \/ \E t \in TickIds : MarkDrop(t) /\ UNCHANGED <<due0, tags, resp, configVars, authVars>>

Spec == Init /\ [][Next]_vars

\* SpecSeq: one run at a time and drops created only between runs; any
\* database call of a run may fail.  A finished run returns and the next one
\* starts from fresh locals, so one run id serves them all.  due0 records the
\* due rows at each listing.
Resting == \A t \in TickIds : ticks[t].pc = "idle"

Snapshot(t) ==
    /\ due0' = IF ticks[t].pc = "idle"
               THEN [d \in {e \in Rows : drops[e].status = "new"} |-> drops[d]]
               ELSE due0
    /\ UNCHANGED <<tags, resp, configVars, authVars>>

\* What ProcessDropsLogic returns from a run that is done: (0, the wrapped
\* listing error) or (totalProcessedCount, nil).
ReturnValue(tk) ==
    [totalProcessedCount |-> IF tk.err THEN 0 ELSE tk.totalProcessedCount,
     err |-> IF tk.err THEN "failed to fetch users with due drops" ELSE "nil"]

\* The users a returned value attributes an error to: the count names none,
\* and the error is nil or the wrapped listing error, which names none.
PerUserErrors(ret) == {}

\* ProcessDropsLogic returned to its caller.
Return(t) ==
    /\ ticks[t].pc = "done"
    /\ ticks' = [ticks EXCEPT ![t] = NewTick]
    /\ UNCHANGED <<drops, now, updates, hist, due0, tags, resp, configVars, authVars>>

NextSeq ==
    \/ Resting /\ Create /\ UNCHANGED <<due0, tags, resp, configVars, authVars>>
    \/ ListUsers(1) /\ Snapshot(1)
    \/ ListUsersFail(1) /\ Snapshot(1)
    \/ GetDueDrop(1) /\ Snapshot(1)
    \/ GetDueDropFail(1) /\ Snapshot(1)
    \/ SendDrop(1) /\ Snapshot(1)
    \/ MarkDrop(1) /\ Snapshot(1)
    \/ MarkDropFail(1) /\ Snapshot(1)
    \/ Return(1)

SpecSeq == Init /\ [][NextSeq]_vars

\* SpecOne: the API and one run at a time, the requests served at any point
\* of the run; no database call fails.
NextOne ==
    \/ Create /\ UNCHANGED <<due0, tags, resp, configVars, authVars>>
    \/ Update /\ UNCHANGED <<due0, tags, resp, configVars, authVars>>
    \/ Delete /\ UNCHANGED <<due0, tags, resp, configVars, authVars>>
    \/ ListUsers(1) /\ UNCHANGED <<due0, tags, resp, configVars, authVars>>
    \/ GetDueDrop(1) /\ UNCHANGED <<due0, tags, resp, configVars, authVars>>
    \/ SendDrop(1) /\ UNCHANGED <<due0, tags, resp, configVars, authVars>>
    \/ MarkDrop(1) /\ UNCHANGED <<due0, tags, resp, configVars, authVars>>
    \/ Return(1)

SpecOne == Init /\ [][NextOne]_vars

\* --------------------------------------------------------------- API router
\* auth.ValidateJWT: the claims of a token that carries the signature of the
\* secret and has not expired; an error for any other string.
ValidateJWT(tokenString) ==
    IF tokenString = "tokenA" THEN [err |-> FALSE, UserID |-> "A"]
    ELSE IF tokenString = "tokenB" THEN [err |-> FALSE, UserID |-> "B"]
    ELSE [err |-> TRUE, UserID |-> NoUUID]

\* Authorization headers, each as strings.Split(authHeader, " ") returns it:
\* none, the scheme alone, another scheme, the two users' tokens, an expired
\* token, and a token followed by a space.
AuthHeaders ==
    {<<"">>, <<"Bearer">>, <<"Basic", "tokenA">>, <<"Bearer", "tokenA">>,
     <<"Bearer", "tokenB">>, <<"Bearer", "expired">>, <<"Bearer", "tokenA", "">>}

\* Faulty variant: the token is not validated; its claims are used as they
\* come.
AuthMiddleware_NoValidation(parts) ==
    IF parts = <<"">>
    THEN [code |-> StatusUnauthorized, UserID |-> NoUUID]
    ELSE IF Len(parts) # 2 \/ parts[1] # "Bearer"
    THEN [code |-> StatusUnauthorized, UserID |-> NoUUID]
    ELSE [code |-> 0, UserID |-> "A"]

\* AuthMiddleware: 401 for no header, for a header that is not 'Bearer TOKEN',
\* and for a token ValidateJWT rejects; otherwise the user id of the claims
\* goes into the request context (code 0: nothing answered yet).
AuthMiddleware(parts) ==
    IF parts = <<"">>
    THEN [code |-> StatusUnauthorized, UserID |-> NoUUID]
    ELSE IF Len(parts) # 2 \/ parts[1] # "Bearer"
    THEN [code |-> StatusUnauthorized, UserID |-> NoUUID]
    ELSE IF ValidateJWT(parts[2]).err
    THEN [code |-> StatusUnauthorized, UserID |-> NoUUID]
    ELSE [code |-> 0, UserID |-> ValidateJWT(parts[2]).UserID]

\* resp for a request to the API with its answer.
Served(handler, method, auth, id, code) ==
    [NoResponse EXCEPT !.handler = handler, !.method = method, !.auth = auth,
                       !.id = id, !.code = code]

\* middleware.Chain(handler, loggingMiddleware, authMiddleware) when
\* AuthMiddleware answers: 401, and the handler does not run.
Unauthorized(handler, method, auth, id) ==
    /\ resp' = Served(handler, method, auth, id, StatusUnauthorized)
    /\ UNCHANGED <<drops, now, ticks, hist, tags>>

\* strings.TrimSpace on the tag names and the email addresses of the requests.
TrimSpace(name) ==
    IF name = " x" THEN "x" ELSE IF name = " a@x" THEN "a@x" ELSE name

\* The tags field of a request body: absent, or a list of names.
NoTags == [Valid |-> FALSE, Names |-> <<>>]
TagLists == {NoTags} \cup {[Valid |-> TRUE, Names |-> n] : n \in {<<>>, <<" x", "">>}}

\* More bodies: a list with a name twice, a list of another name.
MoreTagLists ==
    TagLists \cup {[Valid |-> TRUE, Names |-> n] : n \in {<<" x", "", "x">>, <<"y">>}}

\* The names the handlers associate with the drop: every name of the list,
\* trimmed, that is not empty.
TagNames(reqTags) ==
    {TrimSpace(reqTags.Names[i]) : i \in DOMAIN reqTags.Names} \ {""}

\* Faulty variant: the associations the drop had are left in place.
RemoveAllTagsFromDrop_Keep(dropTags, id) == dropTags

\* RemoveAllTagsFromDrop :exec -- DELETE FROM drops_item_tags WHERE drops_id = $1
RemoveAllTagsFromDrop(dropTags, id) == [dropTags EXCEPT ![id] = {}]

\* CreateTag :one, an upsert that returns the tag of that name, and
\* AddTagToDrop :exec -- INSERT ... ON CONFLICT (drops_id, tag_id) DO NOTHING
AddTagToDrop(dropTags, id, name) == [dropTags EXCEPT ![id] = @ \cup {name}]

\* The loop of UpdateDropHandler over *req.Tags from index i on: each name is
\* trimmed, an empty one is passed over, any other is associated.
RECURSIVE AssociateTags(_, _, _, _)
AssociateTags(dropTags, id, names, i) ==
    IF i > Len(names) THEN dropTags
    ELSE LET trimmedTagName == TrimSpace(names[i]) IN
         IF trimmedTagName = ""
         THEN AssociateTags(dropTags, id, names, i + 1)
         ELSE AssociateTags(AddTagToDrop(dropTags, id, trimmedTagName),
                            id, names, i + 1)

\* POST /api/v1/drops
PostDrop(auth, priority, reqTags) ==
    IF AuthMiddleware(auth).code = StatusUnauthorized
    THEN Unauthorized("CreateDropHandler", "POST", auth, 0)
    ELSE LET userUUID == AuthMiddleware(auth).UserID IN
              /\ CreateDropHandler(userUUID, priority)
              /\ tags' = [d \in DropIds |->
                            IF d \in DOMAIN drops' \ DOMAIN drops
                            THEN TagNames(reqTags) ELSE tags[d]]
              /\ resp' = Served("CreateDropHandler", "POST", auth, 0, StatusCreated)

\* GET /api/v1/drops/{id}
GetDrop(auth, id) ==
    IF AuthMiddleware(auth).code = StatusUnauthorized
    THEN Unauthorized("GetDropHandler", "GET", auth, id)
    ELSE LET userUUID == AuthMiddleware(auth).UserID IN
              /\ resp' = Served("GetDropHandler", "GET", auth, id,
                                GetDropCode(userUUID, id))
              /\ UNCHANGED <<drops, now, ticks, hist, tags>>

\* GET /api/v1/drops
ListDrops(auth) ==
    IF AuthMiddleware(auth).code = StatusUnauthorized
    THEN Unauthorized("ListDropsHandler", "GET", auth, 0)
    ELSE LET userUUID == AuthMiddleware(auth).UserID IN
              /\ resp' = Served("ListDropsHandler", "GET", auth, 0, StatusOK)
              /\ UNCHANGED <<drops, now, ticks, hist, tags>>

\* PUT /api/v1/drops/{id}: after the UPDATE, when the body has a tags field,
\* RemoveAllTagsFromDrop and then CreateTag and AddTagToDrop for each name.
PutDrop(auth, id, priority, status, reqTags) ==
    IF AuthMiddleware(auth).code = StatusUnauthorized
    THEN Unauthorized("UpdateDropHandler", "PUT", auth, id)
    ELSE LET userUUID == AuthMiddleware(auth).UserID IN
              /\ UpdateDropHandler(userUUID, id, priority, status)
              /\ tags' = IF /\ UpdateDropCode(userUUID, id, status) = StatusOK
                            /\ reqTags.Valid
                         THEN AssociateTags(RemoveAllTagsFromDrop(tags, id),
                                            id, reqTags.Names, 1)
                         ELSE tags
              /\ resp' = Served("UpdateDropHandler", "PUT", auth, id,
                                UpdateDropCode(userUUID, id, status))

\* DELETE /api/v1/drops/{id}: drops_item_tags rows go with the drop
\* (ON DELETE CASCADE).
DeleteDrop(auth, id) ==
    IF AuthMiddleware(auth).code = StatusUnauthorized
    THEN Unauthorized("DeleteDropHandler", "DELETE", auth, id)
    ELSE LET userUUID == AuthMiddleware(auth).UserID IN
              /\ DeleteDropHandler(userUUID, id)
              /\ tags' = IF DeleteDropCode(userUUID, id) = StatusNoContent
                         THEN [tags EXCEPT ![id] = {}]
                         ELSE tags
              /\ resp' = Served("DeleteDropHandler", "DELETE", auth, id,
                                DeleteDropCode(userUUID, id))

\* GET /api/v1/tags
ListTags(auth) ==
    IF AuthMiddleware(auth).code = StatusUnauthorized
    THEN Unauthorized("ListTagsHandler", "GET", auth, 0)
    ELSE LET userUUID == AuthMiddleware(auth).UserID IN
              /\ resp' = Served("ListTagsHandler", "GET", auth, 0, StatusOK)
              /\ UNCHANGED <<drops, now, ticks, hist, tags>>

\* SpecApi: the API alone, any requests in any order, at most MaxApiDrops
\* drops.  The table may hold a drop from before drops had a user_uuid.
InitApi ==
    /\ drops \in {[d \in {} |-> Deleted],
                  [d \in {1} |-> CreateDropRow(NoUUID, NoInt32, 0)]}
    /\ now = 0
    /\ updates = 0
    /\ ticks = [t \in TickIds |-> NewTick]
    /\ hist = [d \in DropIds |-> NoHist]
    /\ due0 = [d \in {} |-> Deleted]
    /\ tags = [d \in DropIds |-> {}]
    /\ resp = NoResponse
    /\ InitConfig
    /\ InitAuth

NextApi ==
    \/ /\ \E auth \in AuthHeaders, p \in NullablePriorities, tg \in TagLists :
             PostDrop(auth, p, tg)
       /\ DOMAIN drops' \subseteq 1..MaxApiDrops
       /\ UNCHANGED <<updates, due0, configVars, authVars>>
    \/ /\ \E auth \in AuthHeaders, id \in DropIds : GetDrop(auth, id)
       /\ UNCHANGED <<updates, due0, configVars, authVars>>
    \/ /\ \E auth \in AuthHeaders : ListDrops(auth)
       /\ UNCHANGED <<updates, due0, configVars, authVars>>
    \/ /\ \E auth \in AuthHeaders, id \in DropIds, p \in NullablePriorities,
             st \in NullableStatuses, tg \in TagLists :
             PutDrop(auth, id, p, st, tg)
       /\ UNCHANGED <<updates, due0, configVars, authVars>>
    \/ /\ \E auth \in AuthHeaders, id \in DropIds : DeleteDrop(auth, id)
       /\ UNCHANGED <<updates, due0, configVars, authVars>>
    \/ /\ \E auth \in AuthHeaders : ListTags(auth)
       /\ UNCHANGED <<updates, due0, configVars, authVars>>

SpecApi == InitApi /\ [][NextApi]_vars

\* SpecTags: the requests that write drops and their tags, sent with a valid
\* token, over the tables of SpecApi.
BearerHeaders == {<<"Bearer", "tokenA">>, <<"Bearer", "tokenB">>}

NextTags ==
    \/ /\ \E auth \in BearerHeaders, p \in NullablePriorities, tg \in MoreTagLists :
             PostDrop(auth, p, tg)
       /\ DOMAIN drops' \subseteq 1..MaxApiDrops
       /\ UNCHANGED <<updates, due0, configVars, authVars>>
    \/ /\ \E auth \in BearerHeaders, id \in DropIds, p \in NullablePriorities,
             st \in NullableStatuses, tg \in MoreTagLists :
             PutDrop(auth, id, p, st, tg)
       /\ UNCHANGED <<updates, due0, configVars, authVars>>
    \/ /\ \E auth \in BearerHeaders, id \in DropIds : DeleteDrop(auth, id)
       /\ UNCHANGED <<updates, due0, configVars, authVars>>

SpecTags == InitApi /\ [][NextTags]_vars

\* ------------------------------------------------------------ HTTP trigger
Methods == {"GET", "POST", "PUT", "DELETE"}
TriggerMethods == {"POST", "GET"}

\* Faulty variant: the listing error is swallowed and 200 is answered.
ProcessDueDropsHTTP_HidesError(method, configErr, ret) ==
    IF method \notin TriggerMethods
    THEN [code |-> StatusMethodNotAllowed, processed_count |-> 0,
          error |-> "Only GET or POST method is allowed"]
    ELSE IF configErr
    THEN [code |-> StatusInternalServerError, processed_count |-> 0,
          error |-> "Configuration error"]
    ELSE [code |-> StatusOK, processed_count |-> ret.totalProcessedCount,
          error |-> ""]

\* The answer ProcessDueDropsHTTP writes: 405 for a method other than POST and
\* GET; 500 when config.LoadConfig fails; otherwise, with ret what
\* ProcessDropsLogic returned, 500 for an error and 200 with the count.
ProcessDueDropsHTTP(method, configErr, ret) ==
    IF method \notin TriggerMethods
    THEN [code |-> StatusMethodNotAllowed, processed_count |-> 0,
          error |-> "Only GET or POST method is allowed"]
    ELSE IF configErr
    THEN [code |-> StatusInternalServerError, processed_count |-> 0,
          error |-> "Configuration error"]
    ELSE IF ret.err # "nil"
    THEN [code |-> StatusInternalServerError, processed_count |-> 0,
          error |-> "Critical error processing drops"]
    ELSE [code |-> StatusOK, processed_count |-> ret.totalProcessedCount,
          error |-> ""]

\* resp for a request to the trigger with the given answer.
Triggered(method, answer) ==
    [NoResponse EXCEPT !.handler = "ProcessDueDropsHTTP", !.method = method,
                       !.code = answer.code,
                       !.processed_count = answer.processed_count,
                       !.error = answer.error]

\* A request with another method: answered before anything else is done.
MethodNotAllowed(t) ==
    /\ ticks[t].pc = "idle"
    /\ \E method \in Methods \ TriggerMethods :
          resp' = Triggered(method, ProcessDueDropsHTTP(method, FALSE, ReturnValue(NewTick)))
    /\ UNCHANGED <<drops, now, updates, ticks, hist, tags>>

\* A POST or GET for which config.LoadConfig returns an error (DB_URL or
\* JWT_SECRET not set, the database not reachable): answered without a run.
LoadConfigFail(t) ==
    /\ ticks[t].pc = "idle"
    /\ \E method \in TriggerMethods :
          resp' = Triggered(method, ProcessDueDropsHTTP(method, TRUE, ReturnValue(NewTick)))
    /\ UNCHANGED <<drops, now, updates, ticks, hist, tags>>

\* A POST or GET has passed the method check and LoadConfig: the handler calls
\* ProcessDropsLogic, whose first step follows at once.
Received ==
    \E method \in TriggerMethods :
        resp' = [NoResponse EXCEPT !.handler = "ProcessDueDropsHTTP",
                                   !.method = method]

\* ProcessDropsLogic has returned: the handler writes its answer.
Respond(t) ==
    /\ ticks[t].pc = "done"
    /\ resp' = Triggered(resp.method,
                         ProcessDueDropsHTTP(resp.method, FALSE, ReturnValue(ticks[t])))
    /\ ticks' = [ticks EXCEPT ![t].pc = "responded"]
    /\ UNCHANGED <<drops, now, updates, hist, tags>>

\* The handler has returned; the next request finds fresh locals.
Finish(t) ==
    /\ ticks[t].pc = "responded"
    /\ ticks' = [ticks EXCEPT ![t] = NewTick]
    /\ UNCHANGED <<drops, now, updates, hist, tags, resp>>

\* SpecHttp: the trigger is called again and again, one request at a time;
\* drops are created between the requests; any database call of a run may
\* fail.
NextHttp ==
    \/ Resting /\ Create /\ UNCHANGED <<due0, tags, resp, configVars, authVars>>
    \/ MethodNotAllowed(1) /\ UNCHANGED <<due0, configVars, authVars>>
    \/ LoadConfigFail(1) /\ UNCHANGED <<due0, configVars, authVars>>
    \/ ListUsers(1) /\ Received /\ UNCHANGED <<due0, tags, configVars, authVars>>
    \/ ListUsersFail(1) /\ Received /\ UNCHANGED <<due0, tags, configVars, authVars>>
    \/ GetDueDrop(1) /\ UNCHANGED <<due0, tags, resp, configVars, authVars>>
    \/ GetDueDropFail(1) /\ UNCHANGED <<due0, tags, resp, configVars, authVars>>
    \/ SendDrop(1) /\ UNCHANGED <<due0, tags, resp, configVars, authVars>>
    \/ MarkDrop(1) /\ UNCHANGED <<due0, tags, resp, configVars, authVars>>
    \/ MarkDropFail(1) /\ UNCHANGED <<due0, tags, resp, configVars, authVars>>
    \/ Respond(1) /\ UNCHANGED <<due0, configVars, authVars>>
    \/ Finish(1) /\ UNCHANGED <<due0, configVars, authVars>>

SpecHttp == Init /\ [][NextHttp]_vars

\* SpecStop: run 1 may be cancelled or may crash in its loop; run 2 starts
\* when run 1 is over; drops are created only before run 1.  A database call
\* of a run succeeds while its context is live and fails once it is cancelled.
Over(t) == ticks[t].pc \in {"done", "crashed"}

NextStop ==
    \/ Resting /\ Create /\ UNCHANGED <<due0, tags, resp, configVars, authVars>>
    \/ ListUsers(1) /\ UNCHANGED <<due0, tags, resp, configVars, authVars>>
    \/ ~ticks[1].cancelled /\ GetDueDrop(1) /\ UNCHANGED <<due0, tags, resp, configVars, authVars>>
    \/ ticks[1].cancelled /\ GetDueDropFail(1) /\ UNCHANGED <<due0, tags, resp, configVars, authVars>>
    \/ SendDrop(1) /\ UNCHANGED <<due0, tags, resp, configVars, authVars>>
    \/ ~ticks[1].cancelled /\ MarkDrop(1) /\ UNCHANGED <<due0, tags, resp, configVars, authVars>>
    \/ ticks[1].cancelled /\ MarkDropFail(1) /\ UNCHANGED <<due0, tags, resp, configVars, authVars>>
    \/ Cancel(1) /\ UNCHANGED <<due0, tags, resp, configVars, authVars>>
    \/ Crash(1) /\ UNCHANGED <<due0, tags, resp, configVars, authVars>>
    \/ Over(1) /\ ListUsers(2) /\ UNCHANGED <<due0, tags, resp, configVars, authVars>>
    \/ GetDueDrop(2) /\ UNCHANGED <<due0, tags, resp, configVars, authVars>>
    \/ SendDrop(2) /\ UNCHANGED <<due0, tags, resp, configVars, authVars>>
    \/ MarkDrop(2) /\ UNCHANGED <<due0, tags, resp, configVars, authVars>>

SpecStop == Init /\ [][NextStop]_vars

\* SpecTicks: runs one after another over a table that nothing else writes:
\* no request is served and no database call fails.  The table starts with
\* rows created earlier, all 'new'; a row may carry no user_uuid (the column
\* is `UUID NULL`).
PendingRows(at) ==
    {CreateDropRow(u, p, a) :
        u \in Users \cup {NoUUID}, p \in NullablePriorities, a \in 0..at}

InitTicks ==
    /\ now \in 0..MaxTime
    /\ drops \in UNION {[S -> PendingRows(now)] : S \in SUBSET DropIds}
    /\ updates = 0
    /\ ticks = [t \in TickIds |-> NewTick]
    /\ hist = [d \in DropIds |-> NoHist]
    /\ due0 = [d \in {} |-> Deleted]
    /\ tags = [d \in DropIds |-> {}]
    /\ resp = NoResponse
    /\ InitConfig
    /\ InitAuth

NextTicks ==
    \/ ListUsers(1) /\ Snapshot(1)
    \/ GetDueDrop(1) /\ Snapshot(1)
    \/ SendDrop(1) /\ Snapshot(1)
    \/ MarkDrop(1) /\ Snapshot(1)
    \/ Return(1)

\* The caller keeps starting runs and every started run goes on to its end.
SpecTicks == InitTicks /\ [][NextTicks]_vars /\ WF_vars(NextTicks)

\* ----------------------------------------------------------- package config
\* The errors initializeGlobalDB can end with.
InitErrors ==
    {"DB_URL environment variable not set",
     "cannot open database connection",
     "cannot connect to database (ping failed)"}

\* A goroutine calls GetDBQueries and reaches dbOnce.Do.
GetDBQueries(c) ==
    /\ calls[c].pc \in {"idle", "returned"}
    /\ calls' = [calls EXCEPT ![c] = [NoCall EXCEPT !.pc = "Do"]]
    /\ UNCHANGED <<dbOnce, globalQueries, initConfigErr, inits>>

\* Faulty variant: a plain flag instead of sync.Once; a second goroutine gets
\* in while the first is still initialising.
OnceDo_NoLock(c) ==
    /\ calls[c].pc = "Do"
    /\ dbOnce # "done"
    /\ dbOnce' = "running"
    /\ inits' = inits + 1
    /\ calls' = [calls EXCEPT ![c].pc = "initializeGlobalDB"]
    /\ UNCHANGED <<globalQueries, initConfigErr>>

\* dbOnce.Do for the first goroutine to arrive: it takes the lock of the Once
\* and enters the function.
OnceDo(c) ==
    /\ calls[c].pc = "Do"
    /\ dbOnce = "new"
    /\ dbOnce' = "running"
    /\ inits' = inits + 1
    /\ calls' = [calls EXCEPT ![c].pc = "initializeGlobalDB"]
    /\ UNCHANGED <<globalQueries, initConfigErr>>

\* initializeGlobalDB ran: it set initConfigErr and returned, or it set
\* globalDBConn and globalQueries.
InitializeGlobalDB(c) ==
    /\ calls[c].pc = "initializeGlobalDB"
    /\ \/ /\ initConfigErr' \in InitErrors
          /\ UNCHANGED globalQueries
       \/ /\ globalQueries' = inits
          /\ UNCHANGED initConfigErr
    /\ calls' = [calls EXCEPT ![c].pc = "initialized"]
    /\ UNCHANGED <<dbOnce, inits>>

\* The end of dbOnce.Do for the goroutine that ran the function: the Once is
\* marked done and its lock released.
OnceDone(c) ==
    /\ calls[c].pc = "initialized"
    /\ dbOnce' = "done"
    /\ calls' = [calls EXCEPT ![c].pc = "after"]
    /\ UNCHANGED <<globalQueries, initConfigErr, inits>>

\* dbOnce.Do for a goroutine that finds the Once done; while the function is
\* running, Do blocks.
OnceSkip(c) ==
    /\ calls[c].pc = "Do"
    /\ dbOnce = "done"
    /\ calls' = [calls EXCEPT ![c].pc = "after"]
    /\ UNCHANGED <<dbOnce, globalQueries, initConfigErr, inits>>

\* The rest of GetDBQueries: (nil, initConfigErr), or (nil, an error) when
\* there is neither an error nor a Queries, or (globalQueries, nil).
ReturnQueries(c) ==
    /\ calls[c].pc = "after"
    /\ calls' = [calls EXCEPT ![c] =
                    IF initConfigErr # "nil"
                    THEN [pc |-> "returned", queries |-> 0, err |-> initConfigErr]
                    ELSE IF globalQueries = 0
                    THEN [pc |-> "returned", queries |-> 0,
                          err |-> "database queries not initialized and no error was reported"]
                    ELSE [pc |-> "returned", queries |-> globalQueries, err |-> "nil"]]
    /\ UNCHANGED <<dbOnce, globalQueries, initConfigErr, inits>>

\* SpecConfig: goroutines (one per request of the HTTP trigger) that call
\* GetDBQueries again and again, in any interleaving.
NextConfig ==
    \/ \E c \in Callers : GetDBQueries(c) /\ UNCHANGED <<storeVars, authVars>>
    \/ \E c \in Callers : OnceDo(c) /\ UNCHANGED <<storeVars, authVars>>
    \/ \E c \in Callers : InitializeGlobalDB(c) /\ UNCHANGED <<storeVars, authVars>>
    \/ \E c \in Callers : OnceDone(c) /\ UNCHANGED <<storeVars, authVars>>
    \/ \E c \in Callers : OnceSkip(c) /\ UNCHANGED <<storeVars, authVars>>
    \/ \E c \in Callers : ReturnQueries(c) /\ UNCHANGED <<storeVars, authVars>>

SpecConfig == Init /\ [][NextConfig]_vars

\* ---------------------------------------------------------------- register
\* The bodies of POST /api/v1/auth/register: the email as sent, and whether
\* the password has 8 characters.
RegisterEmails == {"a@x", " a@x", "b@x", "ax"}

\* strings.Contains(req.Email, "@")
ContainsAt(email) == email # "ax"

\* GetUserByEmail :one -- the row of that email, none for sql.ErrNoRows.
GetUserByEmail(email) == {u \in users : u.email = email}

\* RegisterHandler up to the validation: 400 for an email that is empty or
\* has no "@" after TrimSpace and for a short password.
RegisterReceive(r) ==
    /\ regs[r].pc = "idle"
    /\ \E email \in RegisterEmails, longPassword \in BOOLEAN :
          regs' = [regs EXCEPT ![r] =
                     IF TrimSpace(email) = "" \/ ~ContainsAt(TrimSpace(email))
                        \/ ~longPassword
                     THEN [pc |-> "answered", email |-> TrimSpace(email),
                           code |-> StatusBadRequest]
                     ELSE [pc |-> "GetUserByEmail", email |-> TrimSpace(email),
                           code |-> 0]]
    /\ UNCHANGED users

\* The check for an existing user: 409 when GetUserByEmail finds a row;
\* otherwise the handler goes on to hash the password and insert.
RegisterCheck(r) ==
    /\ regs[r].pc = "GetUserByEmail"
    /\ regs' = [regs EXCEPT ![r] =
                  IF GetUserByEmail(regs[r].email) # {}
                  THEN [@ EXCEPT !.pc = "answered", !.code = StatusConflict]
                  ELSE [@ EXCEPT !.pc = "CreateUser"]]
    /\ UNCHANGED users

\* Faulty variant: the email column is not UNIQUE.
RegisterCreate_NoUnique(r) ==
    /\ regs[r].pc = "CreateUser"
    /\ users' = users \cup {[id |-> Cardinality(users) + 1,
                             email |-> regs[r].email]}
    /\ regs' = [regs EXCEPT ![r] = [@ EXCEPT !.pc = "answered",
                                              !.code = StatusCreated]]

\* CreateUser :one -- INSERT INTO users (email, hashed_password): a new row
\* and 201, or, when a row has the email (email TEXT UNIQUE), an error, no
\* row and 500.
RegisterCreate(r) ==
    /\ regs[r].pc = "CreateUser"
    /\ IF GetUserByEmail(regs[r].email) # {}
       THEN /\ UNCHANGED users
            /\ regs' = [regs EXCEPT ![r] =
                          [@ EXCEPT !.pc = "answered",
                                    !.code = StatusInternalServerError]]
       ELSE /\ users' = users \cup {[id |-> Cardinality(users) + 1,
                                     email |-> regs[r].email]}
            /\ regs' = [regs EXCEPT ![r] =
                          [@ EXCEPT !.pc = "answered", !.code = StatusCreated]]

\* The answer is written; the next request can come.
RegisterDone(r) ==
    /\ regs[r].pc = "answered"
    /\ regs' = [regs EXCEPT ![r] = NoReg]
    /\ UNCHANGED users

\* SpecRegister: register requests served by goroutines of their own, in any
\* interleaving; no database error other than the unique violation.
NextRegister ==
    \/ \E r \in RegIds : RegisterReceive(r) /\ UNCHANGED <<storeVars, configVars>>
    \/ \E r \in RegIds : RegisterCheck(r) /\ UNCHANGED <<storeVars, configVars>>
    \/ \E r \in RegIds : RegisterCreate(r) /\ UNCHANGED <<storeVars, configVars>>
    \/ \E r \in RegIds : RegisterDone(r) /\ UNCHANGED <<storeVars, configVars>>

SpecRegister == Init /\ [][NextRegister]_vars

\* ------------------------------------------------------------------ claims
RECURSIVE SumOver(_, _)
SumOver(f, S) ==
    IF S = {} THEN 0
    ELSE LET x == CHOOSE y \in S : TRUE IN f[x] + SumOver(f, S \ {x})

\* Run t holds the drop its GetDueDropsByUserUUID returned.
Fetched(t) == ticks[t].pc \in {"send", "mark"}

\* Run t returned and none of its database calls failed.
Succeeded(t) ==
    ticks[t].pc = "done" /\ ticks[t].overallSuccess /\ ~ticks[t].err

\* C1: with no update request served, a drop that overlapping runs marked has
\* send_count 1: two runs that both fetched the one pending drop before either
\* marked it count it once in total.
C1_OverlappingTicksCountOnce ==
    \A d \in Rows :
        (updates = 0 /\ drops[d].status = "sent") => drops[d].send_count = 1

\* C2: the MarkDropAsSent of a run changes nothing on a row that is no longer
\* 'new' when the update runs, and every status change a run makes is the
\* edge 'new' -> 'sent'.
C2_MarkOnlyIfPending ==
    [][\A t \in TickIds :
          (ticks[t].pc = "mark" /\ ticks'[t].pc # "mark") =>
              \A d \in Rows :
                  /\ drops[d].status # "new" => drops'[d] = drops[d]
                  /\ drops'[d].status # drops[d].status =>
                        drops[d].status = "new" /\ drops'[d].status = "sent"]_vars

\* C3: a run does not count a drop that another run had already advanced, so
\* (no update request interfering) the counts of overlapping runs add up to
\* the 'new' -> 'sent' transitions made.
C3_CountsEqualTransitions ==
    updates = 0 =>
        SumOver([t \in TickIds |-> ticks[t].totalProcessedCount], TickIds)
            = SumOver([d \in DropIds |-> hist[d].transitions], DropIds)

\* The drops of user u that were due when the last run listed.
DueAtStart(u) == {d \in DOMAIN due0 : due0[d].user_uuid = u}

\* C4: a run without a failed call and without concurrent writes transitions
\* exactly one drop of every user that had a due drop when it started, and
\* counts one per such user.
C4_EveryTenantServed ==
    \A t \in TickIds :
        Succeeded(t) =>
            /\ \A u \in Users :
                  DueAtStart(u) # {} =>
                      Cardinality({d \in DueAtStart(u) :
                                      drops[d].status = "sent"}) = 1
            /\ ticks[t].totalProcessedCount
                  = Cardinality({u \in Users : DueAtStart(u) # {}})

C4_Witness ==
    /\ Succeeded(1)
    /\ \A u \in Users : Cardinality(DueAtStart(u)) = 1
    /\ \A d \in DOMAIN due0 : drops[d].status = "sent"

\* C5: a run transitions at most one drop per user: of the n drops of a user
\* that were due when it started, at least n - 1 are still 'new'.
C5_AtMostOnePerTenant ==
    \A t \in TickIds :
        ticks[t].pc # "idle" =>
            \A u \in Users :
                Cardinality({d \in DueAtStart(u) : drops[d].status # "new"}) <= 1

C5_Witness ==
    /\ ticks[1].pc = "done"
    /\ \E u \in Users :
          /\ Cardinality(DueAtStart(u)) >= 2
          /\ Cardinality({d \in DueAtStart(u) : drops[d].status = "sent"}) = 1
          /\ Cardinality({d \in DueAtStart(u) : drops[d].status = "new"})
                = Cardinality(DueAtStart(u)) - 1

\* C6: a successful run selects by priority: a due drop of a user is left 'new'
\* and unchanged whenever the user has a due drop of higher priority (t1 with
\* 3 against t2 with 5), and of due drops that all carry a priority the one with
\* the highest is sent, its send_count raised by one.
C6_HighestPriorityFirst ==
    \A t \in TickIds :
        Succeeded(t) =>
            \A u \in Users : \A hi \in DueAtStart(u) :
                /\ \A lo \in DueAtStart(u) :
                      (/\ due0[lo].priority.Valid /\ due0[hi].priority.Valid
                       /\ due0[lo].priority.Int32 < due0[hi].priority.Int32)
                      => drops[lo] = due0[lo]
                /\ (/\ \A d \in DueAtStart(u) : due0[d].priority.Valid
                    /\ \A lo \in DueAtStart(u) \ {hi} :
                          due0[lo].priority.Int32 < due0[hi].priority.Int32)
                   => (/\ drops[hi].status = "sent"
                       /\ drops[hi].send_count = due0[hi].send_count + 1)

C6_Witness ==
    /\ Succeeded(1)
    /\ \E u \in Users : \E hi, lo \in DueAtStart(u) :
          /\ due0[hi].priority.Valid /\ due0[lo].priority.Valid
          /\ due0[lo].priority.Int32 < due0[hi].priority.Int32
          /\ due0[hi].send_count = 0 /\ drops[hi].send_count = 1
          /\ drops[hi].status = "sent"
          /\ drops[lo].status = "new"

\* C7: of a user's due drops with equal priority, the fetch returns an oldest
\* one: no due drop of that priority has a smaller added_date.
C7_OlderFirstOnEqualPriority ==
    \A t \in TickIds :
        Fetched(t) =>
            LET d == ticks[t].dueDrop IN
            \A e \in DueDrops(drops[d].user_uuid) :
                drops[e].priority = drops[d].priority =>
                    drops[d].added_date <= drops[e].added_date

C7_Witness ==
    /\ Fetched(1)
    /\ LET d == ticks[1].dueDrop IN
       \E e \in DueDrops(drops[d].user_uuid) :
          /\ drops[e].priority = drops[d].priority
          /\ drops[d].added_date < drops[e].added_date

\* C8: the fetch follows one total order (priority desc, added_date asc, id
\* asc): among due drops equal in priority and added_date the drop a run
\* fetches is the one with the smallest id.
C8_TotalOrder ==
    \A t \in TickIds :
        Fetched(t) =>
            LET d == ticks[t].dueDrop IN
            \A e \in DueDrops(drops[d].user_uuid) :
                (/\ drops[e].priority = drops[d].priority
                 /\ drops[e].added_date = drops[d].added_date) => d <= e

\* C9: a drop created without a priority is ordered as priority 0: it is not
\* fetched while the user has a due drop with a priority greater than 0.
C9_DefaultPriorityOrdered ==
    \A t \in TickIds :
        Fetched(t) =>
            LET d == ticks[t].dueDrop IN
            ~drops[d].priority.Valid =>
                \A e \in DueDrops(drops[d].user_uuid) :
                    ~(drops[e].priority.Valid /\ drops[e].priority.Int32 > 0)

\* C10: after k transitions 'new' -> 'sent' of a drop, its send_count is k and
\* its last_sent_date is the time stamp of the k-th transition.
C10_CountIsTransitions ==
    \A d \in Rows :
        /\ drops[d].send_count = hist[d].transitions
        /\ drops[d].last_sent_date = hist[d].transitionAt

\* C11: no step lowers a drop's send_count, and a single step raises it by 0
\* or by exactly 1; a row just inserted starts at 0.
C11_SendCountMonotone ==
    [][\A d \in Rows' :
          IF d \in Rows
          THEN drops'[d].send_count \in
                  {drops[d].send_count, drops[d].send_count + 1}
          ELSE drops'[d].send_count = 0]_vars

C11_Witness ==
    \E d \in Rows :
        /\ drops[d].send_count = 2
        /\ updates = 1

\* C12: in every reachable state a drop's last_sent_date is set if and only
\* if its send_count is greater than 0.
C12_StampIffCounted ==
    \A d \in Rows : drops[d].last_sent_date.Valid <=> drops[d].send_count > 0

C12_Witness ==
    /\ \E d \in Rows :
          /\ drops[d].send_count > 0
          /\ drops[d].last_sent_date.Valid
          /\ drops[d].status = "archived"
    /\ \E d \in Rows :
          /\ drops[d].send_count = 0
          /\ ~drops[d].last_sent_date.Valid

\* C13: when ListUserUUIDsWithDueDrops fails the run returns 0 together with
\* the error straight from the listing: it makes no fetch, send or mark, and
\* no row changes.
C13_FatalListError ==
    [][\A t \in TickIds :
          (ticks'[t].err /\ ~ticks[t].err) =>
              /\ ticks[t].pc = "idle" /\ ticks'[t].pc = "done"
              /\ ReturnValue(ticks'[t]) =
                    [totalProcessedCount |-> 0,
                     err |-> "failed to fetch users with due drops"]
              /\ ticks'[t].i = 0 /\ ticks'[t].dueDrop = 0
              /\ ticks'[t].logged = {}
              /\ drops' = drops /\ hist' = hist /\ now' = now]_vars

C13_Witness ==
    /\ ticks[1].pc = "done" /\ ticks[1].err
    /\ ticks[1].totalProcessedCount = 0
    /\ \E d \in RowsWithDueDrops : due0[d] = drops[d]

\* The users run t logged an error for, at the given step or at any.
LoggedAt(t, step) == {e.user : e \in {l \in ticks[t].logged : l.step = step}}
Logged(t) == {e.user : e \in ticks[t].logged}

\* The users that had a due drop when the last run listed.
UsersDueAtStart == {u \in Users : DueAtStart(u) # {}}

\* C14: a failed GetDueDropsByUserUUID for one user does not end the run: the
\* drops of that user stay as they were, the run goes on to the users listed
\* after it, every listed user without a failed call has a drop sent, and the
\* run returns a nil error.
C14_FetchErrorNonFatal ==
    \A t \in TickIds :
        LoggedAt(t, "fetch") # {} =>
            /\ ~ticks[t].err
            /\ \A u \in LoggedAt(t, "fetch") :
                  \A d \in DueAtStart(u) : drops[d] = due0[d]
            /\ ticks[t].pc = "done" =>
                  /\ ReturnValue(ticks[t]).err = "nil"
                  /\ \A u \in UsersDueAtStart \ Logged(t) :
                        Cardinality({d \in DueAtStart(u) :
                                        drops[d].status = "sent"}) = 1

\* The fetch of the first listed user failed and the run is marking the drop
\* of the second.
C14_Witness ==
    /\ ticks[1].pc = "mark" /\ ticks[1].i = 2
    /\ LoggedAt(1, "fetch") = {ticks[1].userUUIDs[1]}
    /\ drops[ticks[1].dueDrop].user_uuid = ticks[1].userUUIDs[2]

\* C16: a failed MarkDropAsSent for one user is not counted and does not end
\* the run: the count of a finished run is the number of listed users without
\* a failed call, each of which has a drop sent, and the run returns a nil
\* error.
C16_MarkErrorNonFatal ==
    \A t \in TickIds :
        LoggedAt(t, "mark") # {} =>
            /\ ~ticks[t].err
            /\ ticks[t].totalProcessedCount <=
                  Cardinality(UsersDueAtStart \ Logged(t))
            /\ ticks[t].pc = "done" =>
                  /\ ReturnValue(ticks[t]) =
                        [totalProcessedCount |->
                            Cardinality(UsersDueAtStart \ Logged(t)),
                         err |-> "nil"]
                  /\ \A u \in UsersDueAtStart \ Logged(t) :
                        Cardinality({d \in DueAtStart(u) :
                                        drops[d].status = "sent"}) = 1

\* The mark of the first listed user failed, nothing is counted, and the run
\* has fetched and sent the drop of the second.
C16_Witness ==
    /\ ticks[1].pc = "mark" /\ ticks[1].i = 2
    /\ LoggedAt(1, "mark") = {ticks[1].userUUIDs[1]}
    /\ ticks[1].totalProcessedCount = 0
    /\ drops[ticks[1].dueDrop].user_uuid = ticks[1].userUUIDs[2]

C18_AbsentAtFetchSkipped ==
    [][\A t \in TickIds :
          (/\ ticks[t].pc = "fetch"
           /\ DueDrops(ticks[t].userUUIDs[ticks[t].i]) = {}
           /\ ticks'[t] # ticks[t]) =>
              /\ ticks'[t] = NextUser(ticks[t])
              /\ ticks'[t].pc \in {"fetch", "done"}
              /\ ticks'[t].totalProcessedCount = ticks[t].totalProcessedCount
              /\ ticks'[t].overallSuccess = ticks[t].overallSuccess
              /\ ticks'[t].logged = ticks[t].logged
              /\ ticks'[t].err = ticks[t].err
              /\ drops' = drops /\ hist' = hist]_vars

\* A run that listed a user has returned without a count and without an
\* error: the user was skipped.
C18_Witness ==
    \E t \in TickIds :
        /\ ticks[t].pc = "done" /\ ticks[t].i = 1
        /\ ReturnValue(ticks[t]) = [totalProcessedCount |-> 0, err |-> "nil"]
        /\ ticks[t].overallSuccess /\ ticks[t].logged = {}
        /\ \E d \in Rows : drops[d].status \in {"sent", "archived", "snoozed"}

\* C19: the listing a run works through holds every user that owned a 'new'
\* drop when it was taken exactly once, and no other user.
C19_ListsDueUsersOnce ==
    \A t \in TickIds :
        ticks[t].pc \in {"fetch", "send", "mark"} =>
            LET s == ticks[t].userUUIDs IN
            \A u \in Users :
                Cardinality({k \in DOMAIN s : s[k] = u})
                    = IF DueAtStart(u) # {} THEN 1 ELSE 0

\* Freshly listed: one user owns two 'new' drops and is listed once.
C19_Witness ==
    /\ ticks[1].pc = "fetch" /\ ticks[1].i = 1
    /\ Len(ticks[1].userUUIDs) = 1
    /\ Cardinality(DueAtStart(ticks[1].userUUIDs[1])) = 2

\* Run t has just taken its listing, and the listing has one user per row of
\* the table: every row was there and 'new' when the listing was taken.
ListedAllRows(t) ==
    /\ ticks[t].pc = "fetch" /\ ticks[t].i = 1
    /\ Len(ticks[t].userUUIDs) = Cardinality(DOMAIN drops)

\* C20: two listings with no write to the table between them are the same
\* sequence of users.  With no update or delete served, two runs that both
\* listed every row of the table and have done nothing since listed the same
\* table.
C20_ListingOrderStable ==
    \A t1, t2 \in TickIds :
        (updates = 0 /\ ListedAllRows(t1) /\ ListedAllRows(t2)) =>
            ticks[t1].userUUIDs = ticks[t2].userUUIDs

\* Run t crashed after the send of its drop and before MarkDropAsSent.
CrashedAfterSend(t) ==
    ticks[t].pc = "crashed" /\ ticks[t].stoppedAt = "mark"

\* C21: a drop that a run sent and then crashed on before marking it is still
\* 'new', and the next run, fetching for the drop's user with nothing written
\* in between, fetches and sends that same drop.
C21_ResentAfterCrash ==
    CrashedAfterSend(1) =>
        LET d == ticks[1].dueDrop IN
        /\ ticks[2].pc = "idle" => drops[d].status = "new"
        /\ (Fetched(2) /\ ticks[2].userUUIDs[ticks[2].i] = drops[d].user_uuid)
              => ticks[2].dueDrop = d

\* C22: once a run is cancelled in its loop it fetches, sends and marks
\* nothing more and visits no further user: its only step left is to return
\* (or to die), and no row changes.
C22_CancelStopsTheRun ==
    [][\A t \in TickIds :
          (ticks[t].cancelled /\ ticks'[t] # ticks[t]) =>
              /\ ticks'[t].pc \in {"done", "crashed"}
              /\ drops' = drops]_vars

InLoop(tk) == tk.pc \in {"fetch", "send", "mark"}

\* C23: within one run the send happens at most once for each user and each
\* drop: the listed users are pairwise distinct, the drop sent at a position
\* belongs to the user at that position, the run comes to its send step only
\* from the fetch of the same position, and after the send (whether or not
\* the update that follows fails) it only moves on to the next position or
\* ends.
C23_SentOncePerUserAndDrop ==
    [][\A t \in TickIds :
          LET tk == ticks[t]
              nx == ticks'[t]
          IN  /\ \A j, k \in 1..Len(tk.userUUIDs) :
                    tk.userUUIDs[j] = tk.userUUIDs[k] => j = k
              /\ tk.pc = "send" => drops[tk.dueDrop].user_uuid = tk.userUUIDs[tk.i]
              /\ (nx # tk /\ nx.pc = "send") => (tk.pc = "fetch" /\ nx.i = tk.i)
              /\ (InLoop(tk) /\ InLoop(nx)) =>
                    (nx.userUUIDs = tk.userUUIDs /\ nx.i >= tk.i)
              /\ (tk.pc = "mark" /\ nx # tk) =>
                    (nx.pc = "done" \/ (nx.pc = "fetch" /\ nx.i = tk.i + 1))]_vars

\* A run whose update failed for the first user after the send and that has
\* moved on to the second user.
C23_Witness ==
    /\ ticks[1].pc = "fetch"
    /\ ticks[1].i = 2
    /\ LogError("mark", ticks[1].userUUIDs[1]) \in ticks[1].logged

\* C28: last_sent_date never moves back: whenever a step changes a drop's
\* last_sent_date from one time to another, the new time is not earlier.
C28_LastSentNeverBack ==
    [][\A d \in DOMAIN drops :
          (/\ ~drops[d].deleted /\ ~drops'[d].deleted
           /\ drops[d].last_sent_date.Valid /\ drops'[d].last_sent_date.Valid)
              => drops'[d].last_sent_date.Time >= drops[d].last_sent_date.Time]_vars

\* The run steps are the steps that change a run's locals.
RunStep == ticks' # ticks

\* C29: a step of a run creates and deletes no drop, changes no drop other
\* than the one the run fetched and is marking, and on that drop changes
\* nothing but status, last_sent_date and send_count.
C29_RunTouchesOnlyItsDrop ==
    [][RunStep =>
          /\ DOMAIN drops' = DOMAIN drops
          /\ \A d \in DOMAIN drops :
                drops'[d] # drops[d] =>
                    /\ \E t \in TickIds : ticks[t].pc = "mark" /\ ticks[t].dueDrop = d
                    /\ drops'[d] = [drops[d] EXCEPT
                                        !.status = drops'[d].status,
                                        !.last_sent_date = drops'[d].last_sent_date,
                                        !.send_count = drops'[d].send_count]]_vars

\* A finished run that marked one drop of a user who has a second drop still
\* as it was created, the marked one with a priority of its own.
C29_Witness ==
    /\ ticks[1].pc = "done"
    /\ ticks[1].totalProcessedCount = 1
    /\ \E d, e \in Rows :
          /\ d # e
          /\ drops[d].user_uuid = drops[e].user_uuid
          /\ drops[d].status = "sent" /\ drops[d].priority.Valid
          /\ drops[e] = CreateDropRow(drops[e].user_uuid, drops[e].priority,
                                      drops[e].added_date)

\* The status values a request can name that are none of the four.
OtherStatuses == {x \in NullableStatuses : x.Valid /\ x.String \notin Statuses}

\* C24: every step leaves every drop with one of the four status values; a
\* drop that a step creates is 'new' with send_count 0 and no last_sent_date;
\* and an update request that names any other status is refused and changes
\* no drop (no step that changes a drop is the serving of such a request).
C24_StatusIsOneOfFour ==
    [][/\ \A d \in DOMAIN drops' :
             ~drops'[d].deleted => drops'[d].status \in Statuses
       /\ \A d \in DOMAIN drops' \ DOMAIN drops :
             /\ drops'[d].status = "new"
             /\ drops'[d].send_count = 0
             /\ ~drops'[d].last_sent_date.Valid
       /\ updates' # updates =>
             \A u \in Users, id \in DropIds, st \in OtherStatuses :
                /\ UpdateDropCode(u, id, st) # StatusOK
                /\ drops' # drops =>
                      \A p \in NullablePriorities : ~UpdateDropHandler(u, id, p, st)]_vars

\* Creations, an external update and a run have all happened: one drop was
\* archived through the API and another was sent by a run.
C24_Witness ==
    /\ updates = 1
    /\ \E d, e \in Rows :
          /\ drops[d].status = "archived" /\ drops[d].send_count = 0
          /\ drops[e].status = "sent" /\ drops[e].send_count = 1

\* C30: the serving of an update request changes no drop but the one it
\* names; on that drop it changes neither send_count, last_sent_date,
\* added_date nor user_uuid, keeps the priority and the status the request
\* does not supply, and changes nothing at all when the drop belongs to
\* somebody else (or to nobody) or does not exist.
C30_UpdateKeepsTheRest ==
    [][(updates' # updates /\ drops' # drops) =>
          \A u \in Users, id \in DropIds, p \in NullablePriorities,
             st \in NullableStatuses :
             UpdateDropHandler(u, id, p, st) =>
                /\ id \in Rows
                /\ drops[id].user_uuid = u
                /\ \A d \in DOMAIN drops \ {id} : drops'[d] = drops[d]
                /\ drops'[id].deleted = drops[id].deleted
                /\ drops'[id].send_count = drops[id].send_count
                /\ drops'[id].last_sent_date = drops[id].last_sent_date
                /\ drops'[id].added_date = drops[id].added_date
                /\ drops'[id].user_uuid = drops[id].user_uuid
                /\ ~p.Valid => drops'[id].priority = drops[id].priority
                /\ ~st.Valid => drops'[id].status = drops[id].status]_vars

\* A drop with a priority that a run has sent and that its owner then
\* snoozed.
C30_Witness ==
    /\ updates = 1
    /\ \E d \in Rows :
          /\ drops[d].status = "snoozed"
          /\ drops[d].priority.Valid
          /\ drops[d].send_count = 1
          /\ drops[d].last_sent_date.Valid

\* A step that answers a request to the trigger.
Answers == resp' # resp /\ resp'.handler = "ProcessDueDropsHTTP" /\ resp'.code # 0

\* A step that starts a run of ProcessDropsLogic.
StartsRun(t) == ticks[t].pc = "idle" /\ ticks'[t] # ticks[t]

\* What every answer to another method is: 405, no run started, nothing
\* changed.
RefusesOtherMethods ==
    (Answers /\ resp'.method \notin TriggerMethods) =>
        /\ resp'.code = StatusMethodNotAllowed
        /\ ticks' = ticks /\ drops' = drops

\* A run is started only by a POST or GET, one run for the request, and the
\* answer to that request is written only when the run has returned.
OneRunPerRequest ==
    /\ StartsRun(1) =>
          /\ resp'.method \in TriggerMethods /\ resp'.code = 0
          /\ resp.code # 0 \/ resp = NoResponse
    /\ (Answers /\ resp.code = 0 /\ resp # NoResponse) =>
          /\ ticks[1].pc = "done" /\ resp'.method = resp.method

\* The answer relays what the run returned: 200 with its count when it
\* returned no error, whatever it logged, and 500 when it returned the
\* listing error.
RelaysTheRun ==
    /\ ticks[1].pc = "done"
    /\ resp.code = 0 /\ resp # NoResponse
    /\ IF ticks[1].err
       THEN resp'.code = StatusInternalServerError
       ELSE /\ resp'.code = StatusOK
            /\ resp'.processed_count = ticks[1].totalProcessedCount

\* C25 as claimed: every POST or GET is answered from one run of
\* ProcessDropsLogic (200 with its count, or 500 for its listing error), and
\* every other method with 405 and without a run or a change.
C25_TriggerRelaysOneRun ==
    [][/\ RefusesOtherMethods
       /\ OneRunPerRequest
       /\ (Answers /\ resp'.method \in TriggerMethods) => RelaysTheRun]_vars

\* C25: every POST or GET is answered either from one run of
\* ProcessDropsLogic (200 with its count, or 500 for its listing error) or,
\* when the configuration cannot be loaded, with 500 and without a run or a
\* change; every other method with 405 and without a run or a change.
C25_TriggerRelaysOneRunOrConfigError ==
    [][/\ RefusesOtherMethods
       /\ OneRunPerRequest
       /\ (Answers /\ resp'.method \in TriggerMethods) =>
             \/ RelaysTheRun
             \/ /\ resp'.error = "Configuration error"
                /\ resp'.code = StatusInternalServerError
                /\ ticks[1].pc = "idle"
                /\ ticks' = ticks /\ drops' = drops]_vars

\* A request answered 200 with count 1 after a run that marked one user's
\* drop and logged an error for the other user.
C25_Witness ==
    /\ ticks[1].pc = "responded"
    /\ ticks[1].logged # {}
    /\ resp.code = StatusOK
    /\ resp.processed_count = 1

\* Every step of the API serves the request that resp' records.  Its header
\* is 'Bearer <token>' with a token that validates:
BearerOfUser(r) == r.auth \in {<<"Bearer", "tokenA">>, <<"Bearer", "tokenB">>}

\* and the user who sent it, by the token:
Caller(r) == IF r.auth = <<"Bearer", "tokenA">> THEN "A" ELSE "B"

\* C26: a request to a drops or tags endpoint whose Authorization header is
\* not 'Bearer <token>' with a token that validates is answered 401 and
\* changes no drop and no tag; so whatever a handler of these endpoints
\* answers or changes, it does for a request with such a header.
C26_HandlersBehindAuth ==
    [][/\ resp'.handler \in {"CreateDropHandler", "GetDropHandler",
                              "ListDropsHandler", "UpdateDropHandler",
                              "DeleteDropHandler", "ListTagsHandler"}
       /\ ~BearerOfUser(resp') =>
             /\ resp'.code = StatusUnauthorized
             /\ drops' = drops
             /\ tags' = tags
       /\ (resp'.code # StatusUnauthorized \/ drops' # drops \/ tags' # tags)
             => BearerOfUser(resp')]_vars

\* An update request with an expired token for a drop that exists, answered
\* 401.
C26_Witness ==
    /\ resp.handler = "UpdateDropHandler"
    /\ resp.auth = <<"Bearer", "expired">>
    /\ resp.code = StatusUnauthorized
    /\ resp.id \in Rows

ByDropId(r) == r.handler \in {"GetDropHandler", "UpdateDropHandler", "DeleteDropHandler"}

\* C27: a get, update or delete request of an authenticated user succeeds
\* only on a drop whose user_uuid is that user; on a drop of another user or
\* of nobody it is answered 403 and changes no drop and no tag; and whenever
\* a request changes an existing drop or its tags, the drop is the one the
\* request names and belongs to the caller.
C27_OwnerOnly ==
    [][(ByDropId(resp') /\ resp'.code # StatusUnauthorized) =>
          LET id == resp'.id
              userUUID == Caller(resp')
          IN  /\ resp'.code \in {StatusOK, StatusNoContent} =>
                    (id \in Rows /\ drops[id].user_uuid = userUUID)
              /\ (id \in Rows /\ drops[id].user_uuid # userUUID) =>
                    /\ resp'.code = StatusForbidden
                    /\ drops' = drops
                    /\ tags' = tags
              /\ \A d \in Rows :
                    (drops'[d] # drops[d] \/ tags'[d] # tags[d]) =>
                        (d = id /\ drops[d].user_uuid = userUUID)]_vars

\* An update request of another user for a drop that has a tag, answered
\* 403.
C27_Witness ==
    /\ resp.handler = "UpdateDropHandler"
    /\ resp.code = StatusForbidden
    /\ resp.id \in Rows
    /\ drops[resp.id].user_uuid \in Users \ {Caller(resp)}
    /\ tags[resp.id] # {}

\* The order the specification gives for the selection within one user:
\* the query's two keys, then the id.
SelectedBefore(d, e) ==
    \/ SortsBefore(drops[d], drops[e])
    \/ ~SortsBefore(drops[e], drops[d]) /\ d < e

\* A run that returned left every user that had due drops at its listing with
\* one due drop fewer.
EachRunTakesOne ==
    ticks[1].pc = "done" =>
        \A u \in Users :
            DueAtStart(u) # {} =>
                Cardinality(DueDrops(u)) = Cardinality(DueAtStart(u)) - 1

\* A drop that was sent comes before every drop of the same user that is
\* still due.
DeliveredInSelectionOrder ==
    \A d, e \in Rows :
        (/\ drops[d].user_uuid # NoUUID
         /\ drops[d].user_uuid = drops[e].user_uuid
         /\ drops[d].status = "sent" /\ drops[e].status = "new")
        => SelectedBefore(d, e)

\* C31: with runs following one another, no failing call and no other writer,
\* every due drop of a user is sent in the end; each completed run takes one
\* due drop from every user that has any (so n runs clear n drops), and the
\* drops of a user are sent in the selection order.
C31_RepeatedTicksDeliverAll ==
    /\ []EachRunTakesOne
    /\ []DeliveredInSelectionOrder
    /\ \A d \in DropIds :
          (d \in Rows /\ drops[d].user_uuid # NoUUID /\ drops[d].status = "new")
              ~> (d \in Rows /\ drops[d].status = "sent")

\* C32: a 'new' drop without a user_uuid is never listed, fetched, sent or
\* marked by a run: no listing holds the NULL user, no run holds such a drop,
\* and the row stays 'new' with its send_count and last_sent_date as created.
C32_NullTenantNeverSelected ==
    /\ \A t \in TickIds : \A k \in DOMAIN ticks[t].userUUIDs :
          ticks[t].userUUIDs[k] # NoUUID
    /\ \A d \in Rows :
          drops[d].user_uuid = NoUUID =>
              /\ \A t \in TickIds : ticks[t].dueDrop # d
              /\ drops[d].status = "new"
              /\ drops[d].send_count = DefaultSendCount
              /\ drops[d].last_sent_date = DefaultLastSentDate
              /\ hist[d].transitions = 0

C32_Witness ==
    /\ ticks[1].pc = "done"
    /\ ticks[1].totalProcessedCount = 1
    /\ \E d, e \in Rows :
          /\ drops[d].user_uuid = NoUUID /\ drops[d].status = "new"
          /\ SortsBefore(drops[d], drops[e])
          /\ drops[e].user_uuid # NoUUID /\ drops[e].status = "sent"

\* The users the listing of run t returned: none when the listing failed.
Listed(t) == IF ticks[t].err THEN {} ELSE UsersDueAtStart

\* The listed users run t is through with.
Completed(t) ==
    IF InLoop(ticks[t])
    THEN {ticks[t].userUUIDs[k] : k \in 1..(ticks[t].i - 1)}
    ELSE Listed(t)

\* The run's count after a step: one more when the step was a MarkDropAsSent
\* that wrote its row, the same otherwise.
CountsTheMarks ==
    ticks'[1].pc # "idle" =>
        ticks'[1].totalProcessedCount
            = ticks[1].totalProcessedCount
                + (IF ticks[1].pc = "mark" /\ drops' # drops THEN 1 ELSE 0)

\* C33: the count of a run is at least 0 and at most the number of users its
\* listing returned, and it is the number of users for which the fetch and
\* the MarkDropAsSent both returned without an error.
C33_CountWithinListing ==
    /\ [](\A t \in TickIds :
            ticks[t].pc # "idle" =>
                /\ InLoop(ticks[t]) =>
                      Len(ticks[t].userUUIDs) = Cardinality(Listed(t))
                /\ ReturnValue(ticks[t]).totalProcessedCount >= 0
                /\ ReturnValue(ticks[t]).totalProcessedCount
                      <= Cardinality(Listed(t))
                /\ ReturnValue(ticks[t]).totalProcessedCount
                      = Cardinality(Completed(t) \ Logged(t)))
    /\ [][CountsTheMarks]_vars

C33_Witness ==
    /\ ticks[1].pc = "done"
    /\ Cardinality(Listed(1)) = 2
    /\ Cardinality(LoggedAt(1, "mark")) = 1
    /\ LoggedAt(1, "fetch") = {}
    /\ ReturnValue(ticks[1]).totalProcessedCount = 1

\* The set of names a tags list stands for: the non-empty names that some
\* entry of the list trims to.
NamesOf(reqTags) ==
    {n \in {"x", "y"} :
        \E i \in DOMAIN reqTags.Names : TrimSpace(reqTags.Names[i]) = n}

\* C36: a PUT /api/v1/drops/{id} answered 200 whose body has a tags list
\* leaves the drop with exactly the trimmed non-empty names of the list, each
\* once and none of the earlier ones; without a tags field the drop keeps the
\* tags it had.
C36_TagsReplacedByTheList ==
    [][(resp'.handler = "UpdateDropHandler" /\ resp'.code = StatusOK) =>
          \A tg \in MoreTagLists :
              (\E p \in NullablePriorities, st \in NullableStatuses :
                    PutDrop(resp'.auth, resp'.id, p, st, tg))
              => IF tg.Valid
                 THEN tags'[resp'.id] = NamesOf(tg)
                 ELSE tags'[resp'.id] = tags[resp'.id]]_vars

C36_Witness ==
    /\ resp.handler = "UpdateDropHandler" /\ resp.code = StatusOK
    /\ resp.id \in Rows
    /\ tags[resp.id] = {"y"}

\* The goroutines whose call to GetDBQueries has returned.
Returned == {c \in Callers : calls[c].pc = "returned"}

\* C34: whatever the interleaving of the calls, initializeGlobalDB is entered
\* once at most and exactly once before any call returns; the calls return
\* the one Queries it made, or all the one error it ended with; and once the
\* Once is done nothing initialises again, after a failure either.
C34_InitialisedOnce ==
    /\ [](/\ inits <= 1
          /\ \A c \in Returned :
                /\ inits = 1 /\ dbOnce = "done"
                /\ calls[c].queries = globalQueries
                /\ calls[c].err = initConfigErr
                /\ (calls[c].err = "nil") # (calls[c].queries = 0)
          /\ \A c, e \in Returned : calls[c] = calls[e])
    /\ [][dbOnce = "done" =>
             UNCHANGED <<dbOnce, globalQueries, initConfigErr, inits>>]_vars

C34_Witness ==
    /\ Returned = Callers
    /\ inits = 1
    /\ \A c \in Callers : calls[c].err \in InitErrors /\ calls[c].queries = 0

\* The register requests that were answered after their insert ran.
Inserted == {r \in RegIds : regs[r].pc = "answered"
                /\ regs[r].code \in {StatusCreated, StatusInternalServerError}}

\* A step that answers request r.
Answered(r) == regs[r].pc # "answered" /\ regs'[r].pc = "answered"

\* C35: no two users have the same email, however register requests for one
\* email interleave between the check for an existing user and the insert:
\* the request answered 201 found no row of the email and adds the one row
\* of it, a request whose insert comes after that is answered with an error
\* and adds nothing, and no two requests are answered 201 for one email.
C35_OneUserPerEmail ==
    /\ [](/\ \A u, v \in users : u.email = v.email => u = v
          /\ \A r, q \in Inserted :
                (r # q /\ regs[r].email = regs[q].email) =>
                    ~(regs[r].code = StatusCreated /\ regs[q].code = StatusCreated))
    /\ [][\A r \in RegIds :
             /\ Answered(r) =>
                   IF regs'[r].code = StatusCreated
                   THEN /\ GetUserByEmail(regs'[r].email) = {}
                        /\ \E u \in users' : /\ users' = users \cup {u}
                                             /\ u.email = regs'[r].email
                   ELSE /\ users' = users
                        /\ regs'[r].code = StatusInternalServerError =>
                              GetUserByEmail(regs'[r].email) # {}
             /\ ~(\E q \in RegIds : Answered(q)) => users' = users]_vars

C35_Witness ==
    \E r, q \in Inserted :
        /\ regs[r].email = regs[q].email
        /\ regs[r].code = StatusCreated
        /\ regs[q].code = StatusInternalServerError
        /\ Cardinality(GetUserByEmail(regs[r].email)) = 1
====
